---- MODULE Spec2Model ----
(***************************************************************************)
(* Model of provisioner.py: main(args), the orchestration of SAML provider *)
(* registration, parameter binding, stack reconciliation, role lookup and  *)
(* appRoles manifest generation, and process_params, the parameter binder. *)
(*                                                                         *)
(* Strings that the code inspects (parameter keys, manifest keys) are      *)
(* sequences of one-character strings; strings that the code only passes   *)
(* around (ARNs, names, messages) are TLA+ strings.                        *)
(***************************************************************************)
EXTENDS Integers, Sequences, FiniteSets, TLC

VARIABLES args, pc, saml_provider_arn, parameters, trust_role_arn,
          error, log, calls, run, prev

vars == <<args, pc, saml_provider_arn, parameters, trust_role_arn,
          error, log, calls, run, prev>>

----------------------------------------------------------------------------
(* Bounds *)

\* longest parameter list the binder is explored on
MaxLen == 2

\* number of consecutive invocations of main against the same account
MaxRuns == 2

----------------------------------------------------------------------------
(* Values *)

\* Python's None
None == "None"

\* the two marker strings of process_params, as character sequences
SAMLProviderARN ==
  <<"S","A","M","L","P","r","o","v","i","d","e","r","A","R","N">>

RoleName == <<"R","o","l","e","N","a","m","e">>

\* exception classes
SAMLProviderExistsError == "SAMLProviderExistsError"

NoUpdateToPerformError == "NoUpdateToPerformError"

StackExistsError == "StackExistsError"

RoleNotFoundError == "RoleNotFoundError"

\* failures the collaborators' contracts declare besides the imported ones
ProviderNotFound == "ProviderNotFound"

InvalidTemplate == "InvalidTemplate"

\* any failure of a collaborator that is none of the named ones
OtherFailure == "OtherFailure"

\* exceptions of the Python runtime raised inside process_params
KeyError == "KeyError"

TypeError == "TypeError"

FileNotFoundError == "FileNotFoundError"

JSONDecodeError == "JSONDecodeError"

\* logging levels, logging.DEBUG < logging.INFO < logging.WARNING
DEBUG == 10

INFO == 20

WARNING == 30

\* level set on the logger and its handler by setup_logger
LoggerLevel == INFO

----------------------------------------------------------------------------
(* Parameter files *)

\* a parameter entry (a JSON object) is a function whose domain is the set
\* of fields the object has
KV(k, v) == [ParameterKey |-> k, ParameterValue |-> v]

KOnly(k) == [ParameterKey |-> k]

VOnly(v) == [ParameterValue |-> v]

NoFields == [f \in {} |-> None]

\* keys the binder is explored on: the two markers, keys that contain a
\* marker, a key that contains both, and keys that contain none
KeyEnvironment == <<"E","n","v">>

KeyLowerRole == <<"r","o","l","e","n","a","m","e">>

Keys == { SAMLProviderARN,
          RoleName,
          <<"M","y">> \o SAMLProviderARN,
          RoleName \o <<"2">>,
          RoleName \o SAMLProviderARN,
          SAMLProviderARN \o RoleName,
          KeyEnvironment,
          KeyLowerRole }

FileValues == {"v0", "v1"}

Entries == { KV(k, v) : k \in Keys, v \in FileValues }
           \cup { KOnly(k) : k \in Keys }
           \cup { VOnly(v) : v \in FileValues }
           \cup { NoFields }

SeqsUpTo(S, n) == UNION { [1..m -> S] : m \in 0..n }

\* what main is given as args.params_file: the path together with what
\* open() and json.load() find there
NoParamsFile == [kind |-> "None", entries |-> <<>>]

MissingFile == [kind |-> "Missing", entries |-> <<>>]

BadJSONFile == [kind |-> "BadJSON", entries |-> <<>>]

ListFile(es) == [kind |-> "List", entries |-> es]

----------------------------------------------------------------------------
(* process_params *)

\* x in s, for Python strings
Contains(sub, s) ==
  \E i \in 0..(Len(s) - Len(sub)) : SubSeq(s, i + 1, i + Len(sub)) = sub

\* mutant of KeyMatches: the key is compared for equality
KeyMatchesEqual(marker, key) == marker = key

\* the test of lines 43 and 45
KeyMatches(marker, key) == Contains(marker, key)

\* param['ParameterValue'] = v
SetValue(param, v) ==
  [f \in DOMAIN param \cup {"ParameterValue"} |->
     IF f = "ParameterValue" THEN v ELSE param[f]]

Returned(v) == [status |-> "ok", value |-> v, err |-> None]

Raised(e) == [status |-> "raise", value |-> <<>>, err |-> e]

\* mutant of BindEntry: the two overrides exchanged
BindEntrySwapped(param, saml_arn, role_name) ==
  LET key == param["ParameterKey"]
      p1  == IF KeyMatches(SAMLProviderARN, key)
             THEN SetValue(param, role_name) ELSE param
  IN  IF KeyMatches(RoleName, key) THEN SetValue(p1, saml_arn) ELSE p1

\* the body of the for loop, lines 43-46, for an entry that has a key
BindEntry(param, saml_arn, role_name) ==
  LET key == param["ParameterKey"]
      p1  == IF KeyMatches(SAMLProviderARN, key)
             THEN SetValue(param, saml_arn) ELSE param
  IN  IF KeyMatches(RoleName, key) THEN SetValue(p1, role_name) ELSE p1

RECURSIVE BindLoop(_, _, _, _)
\* the for loop of lines 42-46 from entry i on
BindLoop(params, i, saml_arn, role_name) ==
  IF i > Len(params) THEN Returned(params)
  ELSE IF "ParameterKey" \notin DOMAIN params[i] THEN Raised(KeyError)
  ELSE BindLoop([params EXCEPT ![i] = BindEntry(params[i], saml_arn, role_name)],
                i + 1, saml_arn, role_name)

process_params(params_file, saml_arn, role_name) ==
  CASE params_file.kind = "None"    -> Raised(TypeError)
    [] params_file.kind = "Missing" -> Raised(FileNotFoundError)
    [] params_file.kind = "BadJSON" -> Raised(JSONDecodeError)
    [] params_file.kind = "List"    ->
         BindLoop(params_file.entries, 1, saml_arn, role_name)

----------------------------------------------------------------------------
(* Manifest generation *)

\* characters in ASCII order, for the comparison json.dumps sorts keys by
ASCII == <<"0","1","2","3","4","5","6","7","8","9",
           "A","B","C","D","E","F","G","H","I","J","K","L","M",
           "N","O","P","Q","R","S","T","U","V","W","X","Y","Z",
           "a","b","c","d","e","f","g","h","i","j","k","l","m",
           "n","o","p","q","r","s","t","u","v","w","x","y","z">>

Ord(c) == CHOOSE i \in 1..Len(ASCII) : ASCII[i] = c

\* a < b, for Python strings
StrLess(a, b) ==
  \E i \in 1..Len(b) :
     /\ \A j \in 1..(i - 1) : j <= Len(a) /\ a[j] = b[j]
     /\ (i > Len(a) \/ Ord(a[i]) < Ord(b[i]))

RECURSIVE SortedSeq(_)
\* sorted(S), for a set of Python strings
SortedSeq(S) ==
  IF S = {} THEN <<>>
  ELSE LET m == CHOOSE k \in S : \A o \in S \ {k} : StrLess(k, o)
       IN  <<m>> \o SortedSeq(S \ {m})

\* keys of the appRoles descriptor
KeyRoleName == <<"r","o","l","e","N","a","m","e">>

KeyRoleDescription ==
  <<"r","o","l","e","D","e","s","c","r","i","p","t","i","o","n">>

KeyTrustReference ==
  <<"t","r","u","s","t","R","e","f","e","r","e","n","c","e">>

KeyProviderReference ==
  <<"p","r","o","v","i","d","e","r","R","e","f","e","r","e","n","c","e">>

\* approles.generate_ad_role: the descriptor, a dict
generate_ad_role(role_name, role_description, trust_arn, saml_arn) ==
  (KeyRoleName :> role_name) @@ (KeyRoleDescription :> role_description)
  @@ (KeyTrustReference :> trust_arn) @@ (KeyProviderReference :> saml_arn)

\* mutant of json_dumps: sort_keys left out, the members come out in the
\* order the dict holds them, here the opposite of the sorted one
json_dumps_unsorted(blob) ==
  LET ks == SortedSeq(DOMAIN blob)
  IN  [i \in 1..Len(ks) |-> <<ks[Len(ks) + 1 - i], blob[ks[Len(ks) + 1 - i]]>>]

\* json.dumps(blob, sort_keys=True, indent=4): the members in output order
json_dumps(blob) ==
  LET ks == SortedSeq(DOMAIN blob)
  IN  [i \in 1..Len(ks) |-> <<ks[i], blob[ks[i]]>>]

----------------------------------------------------------------------------
(* Inputs of main *)

\* references the provider registrar can hand out
ProviderRefs == {"arn:saml-provider/P0", "arn:saml-provider/P1"}

\* references the role directory can hand out
RoleArns == {"arn:role/R0", "arn:role/R1"}

StackIds == {"stack-id"}

UpdateResponses == {"update-response"}

RoleNames == {"new_saml_role", "ops_role"}

\* parameter files main is run on
ParamFiles ==
  { NoParamsFile, MissingFile, BadJSONFile,
    ListFile(<<>>),
    ListFile(<<KV(SAMLProviderARN, "v0"), KV(RoleName, "v0"),
               KV(KeyEnvironment, "v1")>>),
    ListFile(<<KV(SAMLProviderARN, "v0"), KOnly(RoleName)>>),
    ListFile(<<KV(KeyEnvironment, "v0"), VOnly("v1")>>),
    ListFile(<<KV(RoleName \o SAMLProviderARN, "v0"),
               KV(<<"M","y">> \o SAMLProviderARN, "v1")>>) }

\* the namespace argparse builds; the optional arguments other than the
\* role name and the parameters file are left at their defaults
ArgsFor(file, role) ==
  [saml_metadata    |-> "metadata.xml",
   template_path    |-> "template.yaml",
   params_file      |-> file,
   stack_name       |-> "federated-trust-role-and-policy",
   provider_name    |-> "new_saml_provider",
   role_name        |-> role,
   role_description |-> "A role created by"]

ArgsSet == { ArgsFor(f, r) : f \in ParamFiles, r \in RoleNames }

\* outcomes of the external collaborators
RegisterOutcomes ==
  { Returned(r) : r \in ProviderRefs }
  \cup { Raised(SAMLProviderExistsError), Raised(OtherFailure) }

LookupProviderOutcomes ==
  { Returned(r) : r \in ProviderRefs }
  \cup { Raised(ProviderNotFound), Raised(OtherFailure) }

ValidateOutcomes ==
  { Returned(None), Raised(InvalidTemplate), Raised(OtherFailure) }

CreateOutcomes ==
  { Returned(s) : s \in StackIds }
  \cup { Raised(StackExistsError), Raised(OtherFailure) }

UpdateOutcomes ==
  { Returned(u) : u \in UpdateResponses }
  \cup { Raised(NoUpdateToPerformError), Raised(OtherFailure) }

RoleOutcomes ==
  { Returned(a) : a \in RoleArns }
  \cup { Raised(RoleNotFoundError), Raised(OtherFailure) }

----------------------------------------------------------------------------
(* Logging and call history *)

LogRecord(level, msg, a) == [level |-> level, msg |-> msg, args |-> a]

\* __logger__.debug / info / warning: the logger drops what is below its level
Logged(l, level, msg, a) ==
  IF level >= LoggerLevel THEN Append(l, LogRecord(level, msg, a)) ELSE l

MsgManifest == "\n%s"

MsgRoleMissing == "Couldn't find role %s"

Call(op, a, result) == [op |-> op, args |-> a, result |-> result]

\* mutants of the except clauses: a clause that catches everything, a clause
\* that is missing
RegisterCatchesAny(e) == TRUE

CreateCatchesAny(e) == TRUE

UpdateCatchesNever(e) == FALSE

RoleCatchesNever(e) == FALSE

UpdateCatchesAny(e) == TRUE

RegisterCatchesNever(e) == FALSE

\* the except clauses of main
RegisterCatches(e) == e = SAMLProviderExistsError

CreateCatches(e) == e = StackExistsError

UpdateCatches(e) == e = NoUpdateToPerformError

RoleCatches(e) == e = RoleNotFoundError

\* an exception leaves main
Abort(e) ==
  /\ pc' = "Aborted"
  /\ error' = e

NoRun == [final |-> "None", calls |-> <<>>, log |-> <<>>, error |-> None]

----------------------------------------------------------------------------
(* main *)

Init ==
  /\ args \in ArgsSet
  /\ pc = "Start"
  /\ saml_provider_arn = None
  /\ parameters = <<>>
  /\ trust_role_arn = None
  /\ error = None
  /\ log = <<>>
  /\ calls = <<>>
  /\ run = 1
  /\ prev = NoRun

\* lines 52-57
Start ==
  /\ pc = "Start"
  /\ log' = Logged(log, INFO, "Adding SAML provider to Account...", <<>>)
  /\ saml_provider_arn' = None
  /\ pc' = "RegisterProvider"
  /\ UNCHANGED <<args, parameters, trust_role_arn, error, calls, run, prev>>

\* lines 58-61: saml.add_saml_provider and its except clause
RegisterProvider ==
  /\ pc = "RegisterProvider"
  /\ \E out \in RegisterOutcomes :
       /\ calls' = Append(calls, Call("add_saml_provider",
                            <<args.saml_metadata, args.provider_name>>, out))
       /\ IF out.status = "ok"
          THEN /\ saml_provider_arn' = out.value
               /\ pc' = "BindParameters"
               /\ UNCHANGED <<log, error>>
          ELSE IF RegisterCatches(out.err)
          THEN /\ log' = Logged(log, INFO,
                            "SAML provider %s already exists. Looking up ARN...",
                            <<args.provider_name>>)
               /\ pc' = "LookupProvider"
               /\ UNCHANGED <<saml_provider_arn, error>>
          ELSE /\ Abort(out.err)
               /\ UNCHANGED <<saml_provider_arn, log>>
  /\ UNCHANGED <<args, parameters, trust_role_arn, run, prev>>

\* mutant of LookupProvider: the result of the lookup is not assigned
LookupProviderNoAssign ==
  /\ pc = "LookupProvider"
  /\ \E out \in LookupProviderOutcomes :
       /\ calls' = Append(calls, Call("look_up_saml_provider",
                            <<args.provider_name>>, out))
       /\ IF out.status = "ok"
          THEN /\ pc' = "BindParameters"
               /\ UNCHANGED error
          ELSE Abort(out.err)
  /\ UNCHANGED <<args, saml_provider_arn, parameters, trust_role_arn, log,
                 run, prev>>

\* mutant of LookupProvider: a failed lookup is swallowed
LookupProviderSwallow ==
  /\ pc = "LookupProvider"
  /\ \E out \in LookupProviderOutcomes :
       /\ calls' = Append(calls, Call("look_up_saml_provider",
                            <<args.provider_name>>, out))
       /\ saml_provider_arn' = IF out.status = "ok" THEN out.value ELSE None
       /\ pc' = "BindParameters"
  /\ UNCHANGED <<args, parameters, trust_role_arn, error, log, run, prev>>

\* line 62: saml.look_up_saml_provider, inside the except clause
LookupProvider ==
  /\ pc = "LookupProvider"
  /\ \E out \in LookupProviderOutcomes :
       /\ calls' = Append(calls, Call("look_up_saml_provider",
                            <<args.provider_name>>, out))
       /\ IF out.status = "ok"
          THEN /\ saml_provider_arn' = out.value
               /\ pc' = "BindParameters"
               /\ UNCHANGED error
          ELSE /\ Abort(out.err)
               /\ UNCHANGED saml_provider_arn
  /\ UNCHANGED <<args, parameters, trust_role_arn, log, run, prev>>

\* lines 63-67: process_params, first statement of the try block of line 66
BindParameters ==
  /\ pc = "BindParameters"
  /\ LET out == process_params(args.params_file, saml_provider_arn,
                               args.role_name)
         l1  == Logged(log, DEBUG, "Identity Provider: %s",
                       <<saml_provider_arn>>)
         l2  == Logged(l1, INFO, "Adding Role to account...", <<>>)
     IN  /\ calls' = Append(calls, Call("process_params",
                              <<args.params_file, saml_provider_arn,
                                args.role_name>>, out))
         /\ IF out.status = "ok"
            THEN /\ parameters' = out.value
                 /\ log' = Logged(l2, DEBUG, "Parameters:\n %s", <<out.value>>)
                 /\ pc' = "ValidateTemplate"
                 /\ UNCHANGED error
            ELSE IF CreateCatches(out.err)
            THEN /\ log' = Logged(l2, INFO,
                              "Stack %s already exists. Updating stack instead.",
                              <<args.stack_name>>)
                 /\ pc' = "UpdateStack"
                 /\ UNCHANGED <<parameters, error>>
            ELSE /\ Abort(out.err)
                 /\ log' = l2
                 /\ UNCHANGED parameters
  /\ UNCHANGED <<args, saml_provider_arn, trust_role_arn, run, prev>>

\* lines 68-69: validate_template, inside the try block of line 66
ValidateTemplate ==
  /\ pc = "ValidateTemplate"
  /\ \E out \in ValidateOutcomes :
       LET l1 == Logged(log, DEBUG, "Validating template '%s'",
                        <<args.template_path>>)
       IN  /\ calls' = Append(calls, Call("validate_template",
                                <<args.template_path>>, out))
           /\ IF out.status = "ok"
              THEN /\ pc' = "CreateStack"
                   /\ log' = l1
                   /\ UNCHANGED error
              ELSE IF CreateCatches(out.err)
              THEN /\ log' = Logged(l1, INFO,
                                "Stack %s already exists. Updating stack instead.",
                                <<args.stack_name>>)
                   /\ pc' = "UpdateStack"
                   /\ UNCHANGED error
              ELSE /\ Abort(out.err)
                   /\ log' = l1
  /\ UNCHANGED <<args, saml_provider_arn, parameters, trust_role_arn, run, prev>>

\* mutant of CreateStack: on StackExistsError create_stack is tried again
CreateStackRetry ==
  /\ pc = "CreateStack"
  /\ \E out \in CreateOutcomes :
       /\ calls' = Append(calls, Call("create_stack",
                            <<args.stack_name, args.template_path, parameters>>,
                            out))
       /\ IF out.status = "ok"
          THEN /\ log' = Logged(log, INFO, "Stack created. ID: %s",
                                <<out.value>>)
               /\ pc' = "ResolveRole"
               /\ UNCHANGED error
          ELSE IF CreateCatches(out.err)
          THEN /\ log' = Logged(log, INFO,
                            "Stack %s already exists. Updating stack instead.",
                            <<args.stack_name>>)
               /\ pc' = "CreateStack"
               /\ UNCHANGED error
          ELSE /\ Abort(out.err)
               /\ UNCHANGED log
  /\ UNCHANGED <<args, saml_provider_arn, parameters, trust_role_arn, run, prev>>

\* lines 70-73: create_stack and the except clause of the try block
CreateStack ==
  /\ pc = "CreateStack"
  /\ \E out \in CreateOutcomes :
       /\ calls' = Append(calls, Call("create_stack",
                            <<args.stack_name, args.template_path, parameters>>,
                            out))
       /\ IF out.status = "ok"
          THEN /\ log' = Logged(log, INFO, "Stack created. ID: %s",
                                <<out.value>>)
               /\ pc' = "ResolveRole"
               /\ UNCHANGED error
          ELSE IF CreateCatches(out.err)
          THEN /\ log' = Logged(log, INFO,
                            "Stack %s already exists. Updating stack instead.",
                            <<args.stack_name>>)
               /\ pc' = "UpdateStack"
               /\ UNCHANGED error
          ELSE /\ Abort(out.err)
               /\ UNCHANGED log
  /\ UNCHANGED <<args, saml_provider_arn, parameters, trust_role_arn, run, prev>>

\* mutant of UpdateStack: update_stack is given the parameters as read from
\* the file instead of the bound ones
UpdateStackRawParams ==
  /\ pc = "UpdateStack"
  /\ \E out \in UpdateOutcomes :
       /\ calls' = Append(calls, Call("update_stack",
                            <<args.stack_name, args.template_path,
                              args.params_file.entries>>,
                            out))
       /\ IF out.status = "ok"
          THEN /\ pc' = "ResolveRole"
               /\ UNCHANGED error
          ELSE IF UpdateCatches(out.err)
          THEN /\ pc' = "ResolveRole"
               /\ UNCHANGED error
          ELSE Abort(out.err)
  /\ UNCHANGED <<args, saml_provider_arn, parameters, trust_role_arn, log,
                 run, prev>>

\* mutant of UpdateStack: every failure of update_stack is treated as
\* nothing to update
UpdateStackSwallow ==
  /\ pc = "UpdateStack"
  /\ \E out \in UpdateOutcomes :
       /\ calls' = Append(calls, Call("update_stack",
                            <<args.stack_name, args.template_path, parameters>>,
                            out))
       /\ log' = Logged(log, DEBUG, "Stack does not require Updating.", <<>>)
       /\ pc' = "ResolveRole"
  /\ UNCHANGED <<args, saml_provider_arn, parameters, trust_role_arn, error,
                 run, prev>>

\* lines 74-78: update_stack and its except clause
UpdateStack ==
  /\ pc = "UpdateStack"
  /\ \E out \in UpdateOutcomes :
       /\ calls' = Append(calls, Call("update_stack",
                            <<args.stack_name, args.template_path, parameters>>,
                            out))
       /\ IF out.status = "ok"
          THEN /\ log' = Logged(log, DEBUG,
                            "Stack updated successfully. Response: %s",
                            <<out.value>>)
               /\ pc' = "ResolveRole"
               /\ UNCHANGED error
          ELSE IF UpdateCatches(out.err)
          THEN /\ log' = Logged(log, DEBUG, "Stack does not require Updating.",
                                <<>>)
               /\ pc' = "ResolveRole"
               /\ UNCHANGED error
          ELSE /\ Abort(out.err)
               /\ UNCHANGED log
  /\ UNCHANGED <<args, saml_provider_arn, parameters, trust_role_arn, run, prev>>

\* lines 80-87: roles.look_up_role and its except clause, which re-raises
ResolveRole ==
  /\ pc = "ResolveRole"
  /\ \E out \in RoleOutcomes :
       LET l1 == Logged(log, INFO, "Looking up role ARN...", <<>>)
       IN  /\ calls' = Append(calls, Call("look_up_role",
                                <<args.role_name>>, out))
           /\ IF out.status = "ok"
              THEN /\ trust_role_arn' = out.value
                   /\ log' = Logged(l1, DEBUG, "Role Found: %s", <<out.value>>)
                   /\ pc' = "GenerateManifest"
                   /\ UNCHANGED error
              ELSE /\ log' = IF RoleCatches(out.err)
                             THEN Logged(l1, WARNING, MsgRoleMissing,
                                         <<args.role_name>>)
                             ELSE l1
                   /\ Abort(out.err)
                   /\ UNCHANGED trust_role_arn
  /\ UNCHANGED <<args, saml_provider_arn, parameters, run, prev>>

\* mutant of GenerateManifest: the two references passed in the wrong order
GenerateManifestSwapped ==
  /\ pc = "GenerateManifest"
  /\ LET approles_blob == generate_ad_role(args.role_name,
                                           args.role_description,
                                           saml_provider_arn, trust_role_arn)
         l1 == Logged(log, INFO, "Generating appRoles JSON blob...", <<>>)
     IN  /\ calls' = Append(calls, Call("generate_ad_role",
                              <<args.role_name, args.role_description,
                                saml_provider_arn, trust_role_arn>>,
                              Returned(approles_blob)))
         /\ log' = Logged(l1, INFO, MsgManifest, <<json_dumps(approles_blob)>>)
  /\ pc' = "Done"
  /\ UNCHANGED <<args, saml_provider_arn, parameters, trust_role_arn, error,
                 run, prev>>

\* lines 89-95: approles.generate_ad_role and the emission of the manifest
GenerateManifest ==
  /\ pc = "GenerateManifest"
  /\ LET approles_blob == generate_ad_role(args.role_name,
                                           args.role_description,
                                           trust_role_arn, saml_provider_arn)
         l1 == Logged(log, INFO, "Generating appRoles JSON blob...", <<>>)
         l2 == Logged(l1, DEBUG, "appRoles json generated:", <<>>)
     IN  /\ calls' = Append(calls, Call("generate_ad_role",
                              <<args.role_name, args.role_description,
                                trust_role_arn, saml_provider_arn>>,
                              Returned(approles_blob)))
         /\ log' = Logged(l2, INFO, MsgManifest, <<json_dumps(approles_blob)>>)
  /\ pc' = "Done"
  /\ UNCHANGED <<args, saml_provider_arn, parameters, trust_role_arn, error,
                 run, prev>>

\* lines 135-136: the command is invoked again with the same arguments
Rerun ==
  /\ pc \in {"Done", "Aborted"}
  /\ run < MaxRuns
  /\ prev' = [final |-> pc, calls |-> calls, log |-> log, error |-> error]
  /\ run' = run + 1
  /\ pc' = "Start"
  /\ saml_provider_arn' = None
  /\ parameters' = <<>>
  /\ trust_role_arn' = None
  /\ error' = None
  /\ log' = <<>>
  /\ calls' = <<>>
  /\ UNCHANGED args

Step ==
  \/ Start
  \/ RegisterProvider
  \/ LookupProvider
  \/ BindParameters
  \/ ValidateTemplate
  \/ CreateStack
  \/ UpdateStack
  \/ ResolveRole
  \/ GenerateManifest

Next == Step \/ Rerun

Spec == Init /\ [][Next]_vars

----------------------------------------------------------------------------
(* process_params on its own: every parameter list up to MaxLen *)

InitBind ==
  /\ args \in { ArgsFor(ListFile(t), r) :
                  t \in SeqsUpTo(Entries, MaxLen), r \in RoleNames }
  /\ pc = "BindParameters"
  /\ saml_provider_arn \in ProviderRefs
  /\ parameters = <<>>
  /\ trust_role_arn = None
  /\ error = None
  /\ log = <<>>
  /\ calls = <<>>
  /\ run = 1
  /\ prev = NoRun

NextBind == BindParameters

SpecBind == InitBind /\ [][NextBind]_vars

----------------------------------------------------------------------------
(* Observations on the history of a run *)

Idx(cs, op) == { i \in DOMAIN cs : cs[i].op = op }

Invoked(op) == Idx(calls, op) # {}

FailedWithIn(cs, op, e) ==
  \E i \in Idx(cs, op) : cs[i].result.status = "raise" /\ cs[i].result.err = e

FailedWith(op, e) == FailedWithIn(calls, op, e)

SucceededIn(cs, op) == \E i \in Idx(cs, op) : cs[i].result.status = "ok"

Succeeded(op) == SucceededIn(calls, op)

\* the value the (only) successful call of op returned
ValueIn(cs, op) ==
  cs[CHOOSE i \in Idx(cs, op) : cs[i].result.status = "ok"].result.value

Ops(cs) == [i \in DOMAIN cs |-> cs[i].op]

\* the manifests written to the log
EmittedManifests(l) == SelectSeq(l, LAMBDA r : r.msg = MsgManifest)

ManifestEmitted == EmittedManifests(log) # <<>>

\* the value the emitted manifest gives for key k
ManifestField(l, k) ==
  LET text == EmittedManifests(l)[1].args[1]
  IN  text[CHOOSE i \in DOMAIN text : text[i][1] = k][2]

\* a failure that no except clause of main handles
Unrecovered(c) ==
  /\ c.result.status = "raise"
  /\ ~ (c.op = "add_saml_provider" /\ c.result.err = SAMLProviderExistsError)
  /\ ~ (c.op = "create_stack" /\ c.result.err = StackExistsError)
  /\ ~ (c.op = "update_stack" /\ c.result.err = NoUpdateToPerformError)

IsPrefix(s, t) == Len(s) <= Len(t) /\ SubSeq(t, 1, Len(s)) = s

----------------------------------------------------------------------------
(* C1 *)

C1_Pre ==
  /\ FailedWith("create_stack", StackExistsError)
  /\ FailedWith("update_stack", NoUpdateToPerformError)

C1_Safe ==
  C1_Pre =>
    /\ pc \in {"ResolveRole", "GenerateManifest", "Done", "Aborted"}
    /\ pc = "Aborted" => Invoked("look_up_role")
    /\ (Succeeded("look_up_role") /\ pc \in {"Done", "Aborted"})
         => (pc = "Done" /\ ManifestEmitted)

\* C1: when create_stack fails with StackExistsError and update_stack then
\* fails with NoUpdateToPerformError, the run does not abort at the stack
\* step: the role lookup is invoked, and if it succeeds the run reaches Done
\* with the manifest emitted.
C1_StackNoDriftProceeds ==
  /\ [] C1_Safe
  /\ [][(~ C1_Pre /\ C1_Pre') => pc' = "ResolveRole"]_vars
  /\ [][(C1_Pre /\ pc = "ResolveRole") => Invoked("look_up_role")']_vars
  /\ [][(C1_Pre /\ pc = "GenerateManifest")
          => (pc' = "Done" /\ ManifestEmitted')]_vars

C1_Witness == C1_Pre /\ pc = "Done" /\ ManifestEmitted

----------------------------------------------------------------------------
(* C2 *)

\* C2: a run in which a step fails with a failure main does not recover from
\* ends Aborted with that error propagated and without the manifest; the
\* manifest is emitted only in runs that reach Done.
C2_FatalAbortsWithoutManifest ==
  /\ ManifestEmitted => pc = "Done"
  /\ pc = "Aborted" => (error # None /\ ~ ManifestEmitted)
  /\ \A i \in DOMAIN calls :
       Unrecovered(calls[i]) =>
         /\ pc = "Aborted"
         /\ error = calls[i].result.err
         /\ ~ ManifestEmitted

C2_Witness ==
  /\ pc = "Aborted"
  /\ FailedWith("update_stack", OtherFailure)
  /\ error = OtherFailure

----------------------------------------------------------------------------
(* C3 *)

\* the previous run provisioned a fresh account
C3_PrevFresh ==
  /\ prev.final = "Done"
  /\ SucceededIn(prev.calls, "add_saml_provider")
  /\ SucceededIn(prev.calls, "create_stack")
  /\ SucceededIn(prev.calls, "look_up_role")

\* this run finds the account as the previous run left it
C3_EndState ==
  /\ C3_PrevFresh
  /\ FailedWith("add_saml_provider", SAMLProviderExistsError)
  /\ Succeeded("look_up_saml_provider")
  /\ ValueIn(calls, "look_up_saml_provider")
       = ValueIn(prev.calls, "add_saml_provider")
  /\ FailedWith("create_stack", StackExistsError)
  /\ FailedWith("update_stack", NoUpdateToPerformError)
  /\ Succeeded("look_up_role")
  /\ ValueIn(calls, "look_up_role") = ValueIn(prev.calls, "look_up_role")

C3_Safe ==
  C3_EndState =>
    /\ pc \in {"GenerateManifest", "Done"}
    /\ pc = "Done" =>
         /\ Len(EmittedManifests(log)) = 1
         /\ EmittedManifests(log) = EmittedManifests(prev.log)

\* C3: a run with the same arguments against the end state of a fresh
\* provisioning run (provider exists and is looked up, stack exists, nothing
\* to update, role exists) ends Done and emits the manifest the fresh run
\* emitted.
C3_RerunSameManifest ==
  /\ [] C3_Safe
  /\ [][(C3_EndState /\ pc = "GenerateManifest") => pc' = "Done"]_vars

C3_Witness == C3_EndState /\ pc = "Done"

----------------------------------------------------------------------------
(* C4 *)

\* the parameter list read from the file, and whether the binder returned
Template == args.params_file.entries

Bound == pc = "ValidateTemplate"

\* C4: process_params leaves every entry whose key is neither
\* SAMLProviderARN nor RoleName identical to the entry of the file; only
\* entries keyed by one of the two have their value changed.
C4_OnlyRecognizedKeysChange ==
  Bound =>
    \A i \in DOMAIN Template \cap DOMAIN parameters :
      Template[i]["ParameterKey"] \notin {SAMLProviderARN, RoleName}
        => parameters[i] = Template[i]

----------------------------------------------------------------------------
(* C5 *)

\* C5: the output of process_params has the length and the key sequence of
\* the file, and every entry keyed SAMLProviderARN carries the provider
\* reference and every entry keyed RoleName carries the role name, however
\* often the key occurs.
C5_ShapeKeptMarkersBound ==
  Bound =>
    /\ Len(parameters) = Len(Template)
    /\ \A i \in DOMAIN parameters :
         /\ parameters[i]["ParameterKey"] = Template[i]["ParameterKey"]
         /\ Template[i]["ParameterKey"] = SAMLProviderARN
              => parameters[i]["ParameterValue"] = saml_provider_arn
         /\ Template[i]["ParameterKey"] = RoleName
              => parameters[i]["ParameterValue"] = args.role_name

C5_Witness ==
  /\ Bound
  /\ Template = <<KV(SAMLProviderARN, "v0"), KV(SAMLProviderARN, "v1")>>
  /\ parameters[1]["ParameterValue"] = saml_provider_arn
  /\ parameters[2]["ParameterValue"] = saml_provider_arn

----------------------------------------------------------------------------
(* C6 *)

\* the provider reference this run obtained
ProviderObtained ==
  IF Succeeded("add_saml_provider")
  THEN ValueIn(calls, "add_saml_provider")
  ELSE ValueIn(calls, "look_up_saml_provider")

\* C6: in a run that reaches Done the manifest carries the provider
\* reference obtained in this run (from register, or from the lookup after
\* SAMLProviderExistsError), that reference is the one bound into the stack
\* parameters, and the manifest's trust reference is the one the role lookup
\* of this run returned.
C6_ManifestUsesRunReferences ==
  pc = "Done" =>
    /\ ManifestField(log, KeyProviderReference) = ProviderObtained
    /\ \A i \in Idx(calls, "process_params") :
         calls[i].args[2] = ProviderObtained
    /\ \A i \in Idx(calls, "create_stack") \cup Idx(calls, "update_stack") :
         \A j \in DOMAIN calls[i].args[3] :
           calls[i].args[3][j]["ParameterKey"] = SAMLProviderARN
             => calls[i].args[3][j]["ParameterValue"] = ProviderObtained
    /\ ManifestField(log, KeyTrustReference) = ValueIn(calls, "look_up_role")

C6_Witness ==
  /\ pc = "Done"
  /\ FailedWith("add_saml_provider", SAMLProviderExistsError)
  /\ ValueIn(calls, "look_up_saml_provider") = "arn:saml-provider/P1"
  /\ ManifestField(log, KeyProviderReference) = "arn:saml-provider/P1"
  /\ \E j \in DOMAIN parameters :
       /\ parameters[j]["ParameterKey"] = SAMLProviderARN
       /\ parameters[j]["ParameterValue"] = "arn:saml-provider/P1"

----------------------------------------------------------------------------
(* C7 *)

\* C7: create_stack and update_stack are invoked only after validate_template
\* was invoked and succeeded; when validate_template fails with
\* InvalidTemplate neither is invoked and the run ends Aborted.
C7_ValidateBeforeMutation ==
  /\ \A i \in Idx(calls, "create_stack") \cup Idx(calls, "update_stack") :
       \E j \in 1..(i - 1) :
         calls[j].op = "validate_template" /\ calls[j].result.status = "ok"
  /\ FailedWith("validate_template", InvalidTemplate) =>
       /\ pc = "Aborted"
       /\ error = InvalidTemplate
       /\ ~ Invoked("create_stack")
       /\ ~ Invoked("update_stack")

C7_Witness ==
  /\ FailedWith("validate_template", InvalidTemplate)
  /\ pc = "Aborted"
  /\ Succeeded("process_params")

----------------------------------------------------------------------------
(* C8 *)

\* the steps of a complete run, given which recoveries the run took
ExpectedOps ==
  <<"add_saml_provider">>
  \o (IF FailedWith("add_saml_provider", SAMLProviderExistsError)
      THEN <<"look_up_saml_provider">> ELSE <<>>)
  \o <<"process_params", "validate_template", "create_stack">>
  \o (IF FailedWith("create_stack", StackExistsError)
      THEN <<"update_stack">> ELSE <<>>)
  \o <<"look_up_role", "generate_ad_role">>

\* C8: a run that reaches Done has taken exactly the steps register
\* (lookup only after SAMLProviderExistsError), bind, validate, create
\* (update only after StackExistsError), resolve role, generate manifest, in
\* this order; in every run the steps taken so far are an initial part of
\* this order and every step but the last has completed.
C8_StepOrder ==
  /\ IsPrefix(Ops(calls), ExpectedOps)
  /\ pc = "Done" => Ops(calls) = ExpectedOps
  /\ \A i \in 1..(Len(calls) - 1) : ~ Unrecovered(calls[i])

C8_Witness == pc = "Done" /\ Len(calls) = 8

----------------------------------------------------------------------------
(* C9 *)

C9_Pre ==
  /\ FailedWith("add_saml_provider", SAMLProviderExistsError)
  /\ FailedWith("look_up_saml_provider", ProviderNotFound)

\* C9: when register fails with SAMLProviderExistsError and the lookup then
\* fails with ProviderNotFound, the run ends Aborted with ProviderNotFound
\* propagated and no later step is invoked.
C9_LookupFailureAborts ==
  C9_Pre =>
    /\ pc = "Aborted"
    /\ error = ProviderNotFound
    /\ Ops(calls) = <<"add_saml_provider", "look_up_saml_provider">>
    /\ ~ ManifestEmitted

C9_Witness == C9_Pre /\ pc = "Aborted"

----------------------------------------------------------------------------
(* C10 *)

\* C10: when the role lookup fails with RoleNotFoundError, main logs a
\* warning naming the role, no other message of main is a warning, the same
\* error is re-raised, and manifest generation is never reached.
C10_RoleNotFoundWarnsAndRaises ==
  /\ \A i \in DOMAIN log :
       log[i].level = WARNING <=> log[i].msg = MsgRoleMissing
  /\ FailedWith("look_up_role", RoleNotFoundError) =>
       /\ log # <<>>
       /\ log[Len(log)] = LogRecord(WARNING, MsgRoleMissing, <<args.role_name>>)
       /\ pc = "Aborted"
       /\ error = RoleNotFoundError
       /\ ~ Invoked("generate_ad_role")
       /\ ~ ManifestEmitted

C10_Witness ==
  /\ FailedWith("look_up_role", RoleNotFoundError)
  /\ pc = "Aborted"
  /\ Succeeded("create_stack")

----------------------------------------------------------------------------
(* C11 *)

\* the fatal conditions: a failed provider lookup, an invalid template, an
\* unrecovered create or update failure, a missing role, a parameter file
\* process_params cannot bind
C11_Fatal(c) ==
  /\ Unrecovered(c)
  /\ c.op \in {"look_up_saml_provider", "process_params", "validate_template",
               "create_stack", "update_stack", "look_up_role"}

\* C11: every fatal condition that aborts a run is logged by main, as a
\* report of the failure, before it leaves main: the last record main wrote
\* when the run is Aborted is a warning or worse.
C11_FatalIsLogged ==
  (pc = "Aborted" /\ C11_Fatal(calls[Len(calls)])) =>
    /\ log # <<>>
    /\ log[Len(log)].level >= WARNING

----------------------------------------------------------------------------
(* C12 *)

\* C12: a failure of validate_template, create_stack or update_stack other
\* than StackExistsError from create_stack and NoUpdateToPerformError from
\* update_stack ends the run Aborted with exactly that error, and no later
\* step is invoked.
C12_StackFailureIsFatal ==
  \A i \in DOMAIN calls :
    (/\ calls[i].op \in {"validate_template", "create_stack", "update_stack"}
     /\ Unrecovered(calls[i]))
      => /\ pc = "Aborted"
         /\ error = calls[i].result.err
         /\ i = Len(calls)
         /\ ~ ManifestEmitted

C12_Witness ==
  /\ pc = "Aborted"
  /\ FailedWith("create_stack", OtherFailure)
  /\ error = OtherFailure
  /\ Len(calls) \in {4, 5}

----------------------------------------------------------------------------
(* C13 *)

Recoverable ==
  {SAMLProviderExistsError, StackExistsError, NoUpdateToPerformError}

\* C13: no run ends with SAMLProviderExistsError, StackExistsError or
\* NoUpdateToPerformError as the error that leaves main; each is caught at
\* the step that resolves it.
C13_RecoverableNeverSurfaces ==
  /\ error \notin Recoverable
  /\ \A i \in DOMAIN calls :
       (calls[i].result.status = "raise" /\ calls[i].result.err \in Recoverable)
         => (i < Len(calls) \/ pc # "Aborted")

C13_Witness ==
  /\ pc = "Done"
  /\ FailedWith("add_saml_provider", SAMLProviderExistsError)
  /\ FailedWith("create_stack", StackExistsError)
  /\ FailedWith("update_stack", NoUpdateToPerformError)
  /\ error = None

----------------------------------------------------------------------------
(* C14 *)

\* an entry of the parameters file lacks the key field or the value field
C14_Malformed ==
  /\ args.params_file.kind = "List"
  /\ \E i \in DOMAIN Template :
       DOMAIN Template[i] # {"ParameterKey", "ParameterValue"}

\* C14: when an entry of the parameters file lacks the parameter-key field
\* or the parameter-value field, process_params fails, the failure is not
\* handled by a recovery path, the run ends Aborted and neither create_stack
\* nor update_stack is invoked.
C14_MalformedEntryIsFatal ==
  (C14_Malformed /\ Invoked("process_params")) =>
    /\ \A i \in Idx(calls, "process_params") : calls[i].result.status = "raise"
    /\ pc = "Aborted"
    /\ ~ Invoked("create_stack")
    /\ ~ Invoked("update_stack")

----------------------------------------------------------------------------
(* C15 *)

\* C15: a run given no parameters-file location does not abort because of
\* the omission: as long as every external step succeeds the run is not
\* Aborted.
C15_ParamsFileOptional ==
  (/\ args.params_file = NoParamsFile
   /\ \A i \in DOMAIN calls :
        calls[i].op # "process_params" => calls[i].result.status = "ok")
    => pc # "Aborted"

----------------------------------------------------------------------------
(* C16 *)

\* the arguments generate_ad_role was called with in a run
ManifestInputs(cs) ==
  cs[CHOOSE i \in Idx(cs, "generate_ad_role") : TRUE].args

\* the serialized manifest a run emitted
ManifestText(l) == EmittedManifests(l)[1].args[1]

----------------------------------------------------------------------------
(* C17 *)

\* C17: update_stack is invoked only after create_stack was invoked in the
\* same run and failed with StackExistsError, and with the arguments
\* create_stack was given; at most one of the two succeeds; and the provider
\* lookup is invoked only after register failed with SAMLProviderExistsError.
C17_RecoveryOnlyAfterItsFailure ==
  /\ \A i \in Idx(calls, "update_stack") :
       \E j \in 1..(i - 1) :
         /\ calls[j].op = "create_stack"
         /\ calls[j].result = Raised(StackExistsError)
         /\ calls[j].args = calls[i].args
         /\ calls[i].args = <<args.stack_name, args.template_path, parameters>>
  /\ ~ (Succeeded("create_stack") /\ Succeeded("update_stack"))
  /\ \A i \in Idx(calls, "look_up_saml_provider") :
       \E j \in 1..(i - 1) :
         /\ calls[j].op = "add_saml_provider"
         /\ calls[j].result = Raised(SAMLProviderExistsError)

C17_Witness ==
  /\ Succeeded("update_stack")
  /\ Succeeded("look_up_saml_provider")
  /\ pc = "ResolveRole"
  /\ parameters # Template
  /\ parameters # <<>>

----------------------------------------------------------------------------
(* C18 *)

\* position of a state of main in the order of its statements
PcRank ==
  [p \in {"Start", "RegisterProvider", "LookupProvider", "BindParameters",
          "ValidateTemplate", "CreateStack", "UpdateStack", "ResolveRole",
          "GenerateManifest", "Done", "Aborted"} |->
     CASE p = "Start"            -> 0
       [] p = "RegisterProvider" -> 1
       [] p = "LookupProvider"   -> 2
       [] p = "BindParameters"   -> 3
       [] p = "ValidateTemplate" -> 4
       [] p = "CreateStack"      -> 5
       [] p = "UpdateStack"      -> 6
       [] p = "ResolveRole"      -> 7
       [] p = "GenerateManifest" -> 8
       [] OTHER                  -> 9]

ExternalOps ==
  {"add_saml_provider", "look_up_saml_provider", "validate_template",
   "create_stack", "update_stack", "look_up_role", "generate_ad_role"}

C18_Safe ==
  /\ \A op \in ExternalOps : Cardinality(Idx(calls, op)) <= 1
  /\ pc \in DOMAIN PcRank
  /\ Len(calls) <= PcRank[pc]

\* C18: every run ends in Done or Aborted (every step moves main forward
\* in the order of its statements, none back, and the order ends in Done or
\* Aborted), and each external operation is invoked at most once per run.
C18_TerminatesNoRetry ==
  /\ [] C18_Safe
  /\ [][pc' # "Start" => PcRank[pc'] > PcRank[pc]]_vars

C18_Witness ==
  /\ pc = "Aborted"
  /\ Len(calls) = 7
  /\ FailedWith("look_up_role", OtherFailure)
  /\ \A op \in ExternalOps \ {"generate_ad_role"} :
       Cardinality(Idx(calls, op)) = 1

----------------------------------------------------------------------------
(* C19 *)

\* C19: process_params overrides an entry whenever its key contains
\* SAMLProviderARN or RoleName anywhere in it, not only when the key equals
\* one of them; an entry whose key contains both ends with the role name,
\* and an entry whose key contains neither is left as it is.
C19_ContainmentDecides ==
  Bound =>
    \A i \in DOMAIN parameters :
      LET key == Template[i]["ParameterKey"]
          HasValue(v) == /\ "ParameterValue" \in DOMAIN parameters[i]
                         /\ parameters[i]["ParameterValue"] = v
      IN  /\ Contains(RoleName, key) => HasValue(args.role_name)
          /\ (Contains(SAMLProviderARN, key) /\ ~ Contains(RoleName, key))
               => HasValue(saml_provider_arn)
          /\ (~ Contains(SAMLProviderARN, key) /\ ~ Contains(RoleName, key))
               => parameters[i] = Template[i]

C19_Witness ==
  /\ Bound
  /\ Template = <<KV(<<"M","y">> \o SAMLProviderARN, "v0"),
                  KV(RoleName \o SAMLProviderARN, "v1")>>
  /\ parameters[1]["ParameterValue"] = saml_provider_arn
  /\ parameters[2]["ParameterValue"] = args.role_name

====
